---- MODULE Spec2Model ----
(***************************************************************************)
(* Model of src/async_stream.rs: SenderFuture, Sender and AsyncStream.     *)
(*                                                                         *)
(* The producer is the async closure handed to AsyncStream::new.  It is    *)
(* represented by a program `prog`: a finite sequence of instructions      *)
(*     send x    tx.send(x)            (creates the next SenderFuture)     *)
(*     await k   (the k-th SenderFuture).await                             *)
(*     wait      some other sub-future .await (timer, I/O, ...)            *)
(*     spawn x   the Sender is moved to another thread, which calls        *)
(*               tx.send(x) there (only in SpecThreads)                    *)
(* closed by a terminator  ok  (Ok(()))  or  err e  (Err(e)).              *)
(* Init draws the program from all well-formed programs within the bounds. *)
(***************************************************************************)
EXTENDS Naturals, Sequences, FiniteSets

\* ---------------------------------------------------------------- bounds
MaxBody == 4
MaxItem == 2
MaxErr == 2
MaxPulls == 5
MaxThreadPulls == 3
MaxIdle == 2

Items == 1..MaxItem
Errors == 1..MaxErr

VARIABLES
    prog,        \* the producer's code (fixed by AsyncStream::new)
    pc,          \* position at which the boxed future is suspended
    completed,   \* the boxed future has returned Poll::Ready
    slot,        \* Arc<Cell<Option<I>>>: <<>> is None, <<it>> is Some(it)
    is_ready,    \* is_ready[k]: field of the SenderFuture of the k-th send
    io_ready,    \* the sub-future of the current `wait` has resolved
    sent,        \* history: values passed to send, in call order
    overwritten, \* history: ids of items replaced in the Slot by a send
    sf_log,      \* history: sf_log[k] = results of the polls of SenderFuture k
    results,     \* history: values returned by poll_next, in call order
    pulls,       \* history: number of poll_next calls
    resumes,     \* history: number of polls of the boxed future
    waits,       \* history: number of Pending results of `wait` sub-futures
    panicked,    \* a poll_next call has panicked
    driver,      \* position of the thread inside poll_next
    remote,      \* position of a thread the Sender was moved to
    raced,       \* two unsynchronised accesses of the Cell overlapped
    dropped      \* the AsyncStream (and with it the boxed future) was dropped

vars == <<prog, pc, completed, slot, is_ready, io_ready, sent, overwritten,
          sf_log, results, pulls, resumes, waits, panicked, driver, remote,
          raced, dropped>>

\* ------------------------------------------------------------- programs
Instr ==
    [op : {"send"}, arg : Items] \cup [op : {"await"}, arg : 1..MaxBody]
        \cup {[op |-> "wait", arg |-> 0]}

Term == {[op |-> "ok", arg |-> 0]} \cup [op : {"err"}, arg : Errors]

NumSends(p, n) == Cardinality({i \in 1..n : i <= Len(p) /\ p[i].op = "send"})

\* an await names a SenderFuture that an earlier send has returned
WellFormed(b) ==
    \A i \in 1..Len(b) : b[i].op = "await" => b[i].arg <= NumSends(b, i - 1)

\* producer contract: each SenderFuture is awaited before the next send and
\* before the end (other waits may come in between)
ObeysContract(p) ==
    \A i \in 1..Len(p) : p[i].op = "send" =>
        \E j \in (i + 1)..Len(p) :
            /\ p[j] = [op |-> "await", arg |-> NumSends(p, i)]
            /\ \A m \in (i + 1)..(j - 1) : p[m].op # "send"

\* Sender is Send (unsafe impl), so the producer may move it into another
\* thread; the moved Sender is no longer usable by the producer itself.
SpawnInstr == [op : {"spawn"}, arg : Items]

MovesSender(b) ==
    /\ Cardinality({i \in 1..Len(b) : b[i].op = "spawn"}) = 1
    /\ \A i, j \in 1..Len(b) : (b[i].op = "spawn" /\ j > i) => b[j].op # "send"

\* the item the other thread passes to send
RemoteItem == prog[CHOOSE i \in 1..Len(prog) : prog[i].op = "spawn"].arg

\* that item as the Cell holds it (it is the last one sent)
RemoteWritten ==
    [val |-> RemoteItem,
     id |-> IF remote = "done" THEN Len(sent) ELSE Len(sent) + 1]

\* ------------------------------------------------------------- SenderFuture
\* variant: the future is created already completed
SenderFutureNew_Ready == TRUE

SenderFutureNew == FALSE

\* variant: the first poll reports Ready
SenderFuturePoll_Eager(ready) == [is_ready |-> TRUE, res |-> "Ready"]

\* variant: a pending poll leaves is_ready as it was
SenderFuturePoll_NoFlip(ready) ==
    IF ready THEN [is_ready |-> TRUE, res |-> "Ready"]
    ELSE [is_ready |-> FALSE, res |-> "Pending"]

SenderFuturePoll(ready) ==
    IF ready THEN [is_ready |-> TRUE, res |-> "Ready"]
    ELSE [is_ready |-> TRUE, res |-> "Pending"]

\* ------------------------------------------------------------- Sender
SenderNew == << >>

\* variant: a populated Cell keeps its value
CellSet_KeepFirst(cell, item) == IF cell = << >> THEN <<item>> ELSE cell

\* variant: the item is not stored
CellSet_Noop(cell, item) == cell

\* variant: the Cell queues what it is given
CellSet_Push(cell, item) == Append(cell, item)

\* self.0.set(Some(item.into()))
CellSet(cell, item) == <<item>>

\* variant: the Cell is read but not cleared
CellReplaceNone_Keep(cell) == [cell |-> cell, old |-> cell]

\* self.item.0.replace(None)
CellReplaceNone(cell) == [cell |-> << >>, old |-> cell]

\* Sender::send on the producer's state s
SenderSend(s, x) ==
    LET k == Len(s.sent) + 1
    IN  [s EXCEPT !.slot = CellSet(s.slot, [val |-> x, id |-> k]),
                  !.is_ready = Append(s.is_ready, SenderFutureNew),
                  !.sf_log = Append(s.sf_log, << >>),
                  !.sent = Append(s.sent, x),
                  !.overwritten = IF s.slot = << >> THEN s.overwritten
                                  ELSE Append(s.overwritten, s.slot[1].id),
                  !.pc = s.pc + 1]

\* ------------------------------------------------------------- producer
\* One poll of the boxed future: the async block runs from its suspension
\* point until a sub-future returns Pending or the block returns.
RECURSIVE FutPoll(_)
FutPollFrom(s) ==
    LET ins == prog[s.pc]
    IN  CASE ins.op = "send" -> FutPoll(SenderSend(s, ins.arg))
          [] ins.op = "await" ->
                LET r == SenderFuturePoll(s.is_ready[ins.arg])
                    t == [s EXCEPT !.is_ready[ins.arg] = r.is_ready,
                                   !.sf_log[ins.arg] = Append(@, r.res)]
                IN  IF r.res = "Ready" THEN FutPoll([t EXCEPT !.pc = s.pc + 1])
                    ELSE [t EXCEPT !.pollres = "Pending"]
          [] ins.op = "wait" ->
                IF s.io_ready
                THEN FutPoll([s EXCEPT !.pc = s.pc + 1, !.io_ready = FALSE])
                ELSE [s EXCEPT !.pollres = "Pending", !.waits = s.waits + 1]
          [] ins.op = "spawn" ->
                FutPoll([s EXCEPT !.pc = s.pc + 1, !.remote = "spawned"])
          [] ins.op = "ok" -> [s EXCEPT !.pollres = "ReadyOk"]
          [] ins.op = "err" -> [s EXCEPT !.pollres = "ReadyErr", !.err = ins.arg]

\* the same, with the state it starts from evaluated once
FutPoll(s0) == CHOOSE r \in {FutPollFrom(s) : s \in {s0}} : TRUE

ProducerState ==
    [pc |-> pc, slot |-> slot, is_ready |-> is_ready, io_ready |-> io_ready,
     sent |-> sent, overwritten |-> overwritten, sf_log |-> sf_log,
     waits |-> waits, remote |-> remote, pollres |-> "None", err |-> 0]

\* ------------------------------------------------------------- AsyncStream
Result(tag, val, id) ==
    [tag |-> tag, val |-> val, id |-> id, nsent |-> 0]

\* variant: an empty Slot ends the stream
PendingArm_EndsStream(r) ==
    IF r.old = << >>
    THEN [ret |-> Result("None", 0, 0), cell |-> r.cell]
    ELSE [ret |-> Result("Ok", r.old[1].val, r.old[1].id), cell |-> r.cell]

\* the Pending arm of poll_next, r being what replace(None) did
PendingArm(r) ==
    IF r.old = << >>
    THEN [ret |-> Result("Pending", 0, 0), cell |-> r.cell]
    ELSE [ret |-> Result("Ok", r.old[1].val, r.old[1].id), cell |-> r.cell]

\* variant: Ready(Ok(_)) is treated like Pending
PollNextMatch_NoEnd(pollres, err, cell) ==
    IF pollres = "ReadyErr"
    THEN [ret |-> Result("Err", err, 0), cell |-> cell]
    ELSE PendingArm(CellReplaceNone(cell))

\* variant: the Ready arms clear the Slot
PollNextMatch_ClearsOnEnd(pollres, err, cell) ==
    CASE pollres = "ReadyOk" -> [ret |-> Result("None", 0, 0), cell |-> << >>]
      [] pollres = "ReadyErr" -> [ret |-> Result("Err", err, 0), cell |-> << >>]
      [] pollres = "Pending" -> PendingArm(CellReplaceNone(cell))

\* variant: the Ready arms hand out an item left in the Slot
PollNextMatch_FlushOnEnd(pollres, err, cell) ==
    CASE pollres = "Pending" \/ cell # << >> ->
            PendingArm(CellReplaceNone(cell))
      [] pollres = "ReadyOk" -> [ret |-> Result("None", 0, 0), cell |-> cell]
      [] pollres = "ReadyErr" -> [ret |-> Result("Err", err, 0), cell |-> cell]

\* the match on pollres in poll_next; cell is the Slot at that moment
PollNextMatch(pollres, err, cell) ==
    CASE pollres = "ReadyOk" -> [ret |-> Result("None", 0, 0), cell |-> cell]
      [] pollres = "ReadyErr" -> [ret |-> Result("Err", err, 0), cell |-> cell]
      [] pollres = "Pending" -> PendingArm(CellReplaceNone(cell))

\* Cell::replace overlapping a Cell::set of item w in another thread is a
\* data race: either access may see or leave either value.
RacyReplace(cell, w) ==
    {[cell |-> c, old |-> o] : c \in {<< >>, <<w>>},
                               o \in {<< >>, <<w>>} \cup {cell}}

RacySet(cell, w) == {<< >>, <<w>>}

Init ==
    /\ \E n \in 0..MaxBody : \E b \in [1..n -> Instr], t \in Term :
          WellFormed(b) /\ prog = Append(b, t)
    /\ pc = 1
    /\ completed = FALSE
    /\ slot = SenderNew
    /\ is_ready = << >>
    /\ io_ready = FALSE
    /\ sent = << >>
    /\ overwritten = << >>
    /\ sf_log = << >>
    /\ results = << >>
    /\ pulls = 0
    /\ resumes = 0
    /\ waits = 0
    /\ panicked = FALSE
    /\ driver = "idle"
    /\ remote = "none"
    /\ raced = FALSE
    /\ dropped = FALSE

\* variant: the future outlives the stream that owned it
Alive_Always == TRUE

\* the AsyncStream exists: it owns the boxed future, which is dropped with it
Alive == ~dropped

\* poll_next on a stream whose future has not completed
PollNextBody ==
    /\ Alive
    /\ driver = "idle"
    /\ ~completed
    /\ LET s == FutPoll(ProducerState)
           m == PollNextMatch(s.pollres, s.err, s.slot)
       IN  /\ pc' = s.pc
           /\ completed' = (s.pollres # "Pending")
           /\ slot' = m.cell
           /\ is_ready' = s.is_ready
           /\ io_ready' = s.io_ready
           /\ sent' = s.sent
           /\ overwritten' = s.overwritten
           /\ sf_log' = s.sf_log
           /\ waits' = s.waits
           /\ remote' = s.remote
           /\ results' = Append(results, [m.ret EXCEPT !.nsent = Len(s.sent)])
    /\ pulls' = pulls + 1
    /\ resumes' = resumes + 1
    /\ UNCHANGED <<prog, panicked, driver, raced, dropped>>

PollNext == pulls < MaxPulls /\ PollNextBody

\* poll_next on a stream whose future has completed: self.fut is still
\* Some(..), so the completed async block is polled again and panics
\* ("`async fn` resumed after completion").
PollNextCompleted ==
    /\ pulls < MaxPulls
    /\ Alive
    /\ driver = "idle"
    /\ completed
    /\ pulls' = pulls + 1
    /\ resumes' = resumes + 1
    /\ panicked' = TRUE
    /\ UNCHANGED <<prog, pc, completed, slot, is_ready, io_ready, sent,
                   overwritten, sf_log, results, waits, driver, remote, raced,
                   dropped>>

\* the sub-future the producer is waiting on resolves
Resolve ==
    /\ Alive
    /\ ~completed
    /\ prog[pc].op = "wait"
    /\ ~io_ready
    /\ io_ready' = TRUE
    /\ UNCHANGED <<prog, pc, completed, slot, is_ready, sent, overwritten,
                   sf_log, results, pulls, resumes, waits, panicked, driver,
                   remote, raced, dropped>>

\* the consumer drops the stream: its fields (the boxed future, the Sender)
\* are dropped; nothing is run and nothing is read from the Slot
Drop ==
    /\ Alive
    /\ driver = "idle"
    /\ dropped' = TRUE
    /\ UNCHANGED <<prog, pc, completed, slot, is_ready, io_ready, sent,
                   overwritten, sf_log, results, pulls, resumes, waits,
                   panicked, driver, remote, raced>>

Next == PollNext \/ PollNextCompleted \/ Resolve \/ Drop

Spec == Init /\ [][Next]_vars

\* ------------------------------------------------------------- a consumer that keeps pulling
\* poll_next called by a consumer that does not give up.  A pull made while
\* the producer is suspended on an unresolved wait changes nothing but the
\* history, so only MaxIdle of those are followed; every other pull moves
\* the producer forward, so there are at most Len(prog) of them.
PollNextLive ==
    /\ (prog[pc].op = "wait" /\ ~io_ready) => waits < MaxIdle
    /\ pulls < Len(prog) + MaxIdle
    /\ PollNextBody

NextLive == PollNextLive \/ PollNextCompleted \/ Resolve

\* the closure handed to AsyncStream::new awaits every SenderFuture before
\* its next send and before it returns
InitLive == Init /\ ObeysContract(prog)

\* the consumer keeps pulling, and every non-send wait resolves in the end
SpecLive ==
    InitLive /\ [][NextLive]_vars /\ WF_vars(PollNextLive) /\ WF_vars(Resolve)

\* ------------------------------------------------------------- threads
\* The same code with the steps of the two threads interleaved: poll_next
\* runs up to the entry of Cell::replace, and leaves it in a second step;
\* the thread holding the moved Sender enters and leaves Cell::set.
InitThreads ==
    /\ \E n \in 0..MaxBody : \E b \in [1..n -> Instr \cup SpawnInstr], t \in Term :
          WellFormed(b) /\ MovesSender(b) /\ prog = Append(b, t)
    /\ pc = 1
    /\ completed = FALSE
    /\ slot = SenderNew
    /\ is_ready = << >>
    /\ io_ready = FALSE
    /\ sent = << >>
    /\ overwritten = << >>
    /\ sf_log = << >>
    /\ results = << >>
    /\ pulls = 0
    /\ resumes = 0
    /\ waits = 0
    /\ panicked = FALSE
    /\ driver = "idle"
    /\ remote = "none"
    /\ raced = FALSE
    /\ dropped = FALSE

PollNextBegin ==
    /\ pulls < MaxThreadPulls
    /\ Alive
    /\ driver = "idle"
    /\ ~completed
    /\ LET s == FutPoll(ProducerState)
       IN  /\ pc' = s.pc
           /\ completed' = (s.pollres # "Pending")
           /\ is_ready' = s.is_ready
           /\ io_ready' = s.io_ready
           /\ sent' = s.sent
           /\ overwritten' = s.overwritten
           /\ sf_log' = s.sf_log
           /\ waits' = s.waits
           /\ remote' = s.remote
           /\ IF s.pollres = "Pending"
              THEN /\ driver' = "replacing"
                   /\ raced' = (raced \/ s.remote = "writing")
                   /\ slot' = s.slot
                   /\ results' = results
              ELSE /\ driver' = "idle"
                   /\ raced' = raced
                   /\ slot' = PollNextMatch(s.pollres, s.err, s.slot).cell
                   /\ results' =
                        Append(results,
                               [PollNextMatch(s.pollres, s.err, s.slot).ret
                                   EXCEPT !.nsent = Len(s.sent)])
    /\ pulls' = pulls + 1
    /\ resumes' = resumes + 1
    /\ UNCHANGED <<prog, panicked, dropped>>

PollNextEnd ==
    /\ driver = "replacing"
    /\ \E r \in (IF raced THEN RacyReplace(slot, RemoteWritten)
                  ELSE {CellReplaceNone(slot)}) :
          /\ slot' = PendingArm(r).cell
          /\ results' = Append(results, [PendingArm(r).ret
                                            EXCEPT !.nsent = Len(sent)])
    /\ driver' = "idle"
    /\ raced' = (raced /\ remote = "writing")
    /\ UNCHANGED <<prog, pc, completed, is_ready, io_ready, sent, overwritten,
                   sf_log, pulls, resumes, waits, panicked, remote, dropped>>

\* the other thread enters Cell::set inside tx.send(RemoteItem)
RemoteSendBegin ==
    /\ remote = "spawned"
    /\ remote' = "writing"
    /\ raced' = (raced \/ driver = "replacing")
    /\ UNCHANGED <<prog, pc, completed, slot, is_ready, io_ready, sent,
                   overwritten, sf_log, results, pulls, resumes, waits,
                   panicked, driver, dropped>>

\* the other thread leaves Cell::set and send returns its SenderFuture
RemoteSendEnd ==
    /\ remote = "writing"
    /\ remote' = "done"
    /\ LET s == SenderSend(ProducerState, RemoteItem)
       IN  /\ slot' \in (IF raced THEN RacySet(slot, s.slot[1]) ELSE {s.slot})
           /\ is_ready' = s.is_ready
           /\ sf_log' = s.sf_log
           /\ sent' = s.sent
           /\ overwritten' = s.overwritten
    /\ raced' = (raced /\ driver = "replacing")
    /\ UNCHANGED <<prog, pc, completed, io_ready, results, pulls, resumes,
                   waits, panicked, driver, dropped>>

NextThreads ==
    \/ PollNextBegin
    \/ PollNextEnd
    \/ PollNextCompleted
    \/ Resolve
    \/ RemoteSendBegin
    \/ RemoteSendEnd

SpecThreads == InitThreads /\ [][NextThreads]_vars

\* ------------------------------------------------------------- vocabulary
IsPrefix(a, b) == Len(a) <= Len(b) /\ \A i \in 1..Len(a) : a[i] = b[i]

Last(p) == p[Len(p)]

EndsOk(p) == Last(p).op = "ok"

EndsErr(p) == Last(p).op = "err"

\* the values the program passes to send, in program order
SentItems(p) ==
    LET q == SelectSeq(p, LAMBDA e : e.op = "send")
    IN  [i \in 1..Len(q) |-> q[i].arg]

\* every send is awaited at once: `tx.send(x).await`, and nothing else awaits
AwaitsEachSend(p) ==
    /\ \A i \in 1..Len(p) : p[i].op = "send" =>
          p[i + 1] = [op |-> "await", arg |-> NumSends(p, i)]
    /\ \A i \in 1..Len(p) : p[i].op = "await" =>
          (i > 1 /\ p[i - 1].op = "send")

NoSends(p) == \A i \in 1..Len(p) : p[i].op # "send"

NoWaits(p) == \A i \in 1..Len(p) : p[i].op # "wait"

Tagged(r) == <<r.tag, r.val>>

\* what the pulls returned, as <<tag, value>> pairs
Returned == [i \in 1..Len(results) |-> Tagged(results[i])]

\* the same, without the pulls that returned Poll::Pending
Yielded == SelectSeq(Returned, LAMBDA r : r[1] # "Pending")

OkResults == SelectSeq(results, LAMBDA r : r.tag = "Ok")

OkVals == [i \in 1..Len(OkResults) |-> OkResults[i].val]

OkIds == [i \in 1..Len(OkResults) |-> OkResults[i].id]

OkItems(items) == [i \in 1..Len(items) |-> <<"Ok", items[i]>>]

Range(f) == {f[i] : i \in DOMAIN f}

\* ------------------------------------------------------------- C1
\* C1: a producer that sends i1..iN, awaiting each send, and then returns
\* Ok(()) makes the pulls that return a value return Ok(i1), ..., Ok(iN) in
\* that order and then None: what has been returned so far is always a
\* prefix of that sequence, and all of it once the producer has completed.
ExpectedOnSuccess == Append(OkItems(SentItems(prog)), <<"None", 0>>)

C1_ItemsThenEnd ==
    (AwaitsEachSend(prog) /\ EndsOk(prog)) =>
        /\ IsPrefix(Yielded, ExpectedOnSuccess)
        /\ completed => Yielded = ExpectedOnSuccess

C1_Witness ==
    /\ AwaitsEachSend(prog) /\ EndsOk(prog)
    /\ completed
    /\ Len(sent) = 2
    /\ sent[1] # sent[2]
    /\ Yielded = <<<<"Ok", sent[1]>>, <<"Ok", sent[2]>>, <<"None", 0>>>>

\* ------------------------------------------------------------- C2
\* C2: once a pull has reported None after the producer returned Ok(()),
\* every later pull reports None as well (it returns, and returns nothing
\* else), and the producer's future is not polled again.
C2_DoneIsTerminal ==
    \A i \in 1..Len(results) : results[i].tag = "None" =>
        /\ \A j \in (i + 1)..Len(results) : results[j].tag = "None"
        /\ Len(results) = pulls
        /\ ~panicked
        /\ resumes <= i

\* ------------------------------------------------------------- C3
\* C3: a producer that sends i1..iK, awaiting each send, and then returns
\* Err(E) makes the pulls that return a value return Ok(i1), ..., Ok(iK),
\* then Err(E) once, then None on every later pull.
C3_FailureThenEnd ==
    (AwaitsEachSend(prog) /\ EndsErr(prog)) =>
        LET head == Append(OkItems(SentItems(prog)), <<"Err", Last(prog).arg>>)
        IN  /\ \A i \in 1..Len(Yielded) :
                  Yielded[i] = IF i <= Len(head) THEN head[i] ELSE <<"None", 0>>
            /\ completed => Len(results) = pulls /\ ~panicked

\* ------------------------------------------------------------- C4
\* C4: for a producer that obeys the contract, the Ok items returned so far
\* are the first items passed to send, in send order, each once; at most one
\* sent item is not yet returned, also right after the producer's next
\* resume step, and it is the one in the Slot.
C4_OkIsPrefixOfSent ==
    ObeysContract(prog) =>
        /\ IsPrefix(OkVals, sent)
        /\ OkIds = [i \in 1..Len(OkIds) |-> i]
        /\ Len(sent) - Len(OkVals) = Len(slot)
        /\ Len(slot) <= 1
        /\ ~completed => Len(FutPoll(ProducerState).sent) <= Len(OkVals) + 1

C4_Witness ==
    /\ ObeysContract(prog)
    /\ EndsErr(prog)
    /\ completed
    /\ Len(OkVals) = 2
    /\ OkVals[1] # OkVals[2]
    /\ OkVals = sent

\* ------------------------------------------------------------- C5
\* C5: a pull in which the producer suspends on a non-send wait with the
\* Slot empty returns Poll::Pending, emits nothing and leaves the stream
\* running; a pull made after the wait has resolved runs the producer on to
\* the send that follows and returns that item; and with such waits a
\* producer awaiting each send still gets every item out, once, in order.
C5_NonSendSuspension ==
    /\ [](AwaitsEachSend(prog) => (OkVals = sent /\ overwritten = << >>))
    /\ [][/\ (pulls' = pulls + 1 /\ waits' = waits + 1 /\ sent' = sent
                /\ slot = << >>) =>
                  /\ Len(results') = Len(results) + 1
                  /\ Tagged(Last(results')) = <<"Pending", 0>>
                  /\ ~completed'
                  /\ ~panicked'
                  /\ prog[pc'].op = "wait"
          /\ (pulls' = pulls + 1 /\ ~completed /\ io_ready
                /\ prog[pc].op = "wait" /\ prog[pc + 1].op = "send"
                /\ prog[pc + 2].op = "await"
                /\ prog[pc + 2].arg = Len(sent) + 1) =>
                  /\ Len(results') = Len(results) + 1
                  /\ Tagged(Last(results')) = <<"Ok", prog[pc + 1].arg>>
                  /\ ~completed']_vars

C5_Witness ==
    /\ AwaitsEachSend(prog)
    /\ Len(results) = 3
    /\ Len(sent) = 1
    /\ Tagged(results[1]) = <<"Pending", 0>>
    /\ Tagged(results[2]) = <<"Ok", sent[1]>>
    /\ Tagged(results[3]) = <<"None", 0>>

\* ------------------------------------------------------------- C6
\* C6 as stated: a producer that sends nothing and returns Ok(()) makes the
\* first pull return None, and no pull returns an item, a failure or
\* Poll::Pending.
C6_EmptyStreamEndsAtOnce ==
    (NoSends(prog) /\ EndsOk(prog) /\ pulls >= 1) =>
        /\ results[1].tag = "None"
        /\ \A i \in 1..Len(results) : results[i].tag \notin {"Ok", "Err", "Pending"}

\* C6 amended: such a producer never makes a pull return an item or a
\* failure; if moreover it never suspends on a non-send wait, the first pull
\* returns None and no pull returns Poll::Pending.
C6_EmptyStreamNoSuspension ==
    (NoSends(prog) /\ EndsOk(prog)) =>
        /\ \A i \in 1..Len(results) : results[i].tag \notin {"Ok", "Err"}
        /\ (waits = 0 /\ pulls >= 1) => Returned = << <<"None", 0>> >>

C6_Witness ==
    /\ NoSends(prog) /\ EndsOk(prog)
    /\ waits = 0
    /\ pulls >= 1
    /\ Returned = << <<"None", 0>> >>

\* ------------------------------------------------------------- C7
\* C7: the write of the Slot by send and the read-and-clear by poll_next
\* never overlap: no send is inside Cell::set while poll_next is inside
\* Cell::replace.
C7_NoSimultaneousSlotAccess ==
    /\ ~(driver = "replacing" /\ remote = "writing")
    /\ ~raced

\* ------------------------------------------------------------- C8
\* C8: a send into a populated Slot replaces the stored item without any
\* error: the replaced item is never returned by a pull, every Ok a pull
\* returns carries the item sent last before that pull found the producer
\* suspended, and the stream goes on as usual (no panic before completion,
\* a failure only from the producer's own Err, every item sent is either
\* returned, replaced, or left in the Slot of a completed producer).
C8_DoubleSendOverwrites ==
    /\ \A i \in 1..Len(results) : results[i].tag = "Ok" =>
          /\ results[i].id = results[i].nsent
          /\ results[i].val = sent[results[i].id]
          /\ results[i].id \notin Range(overwritten)
    /\ \A k \in Range(overwritten) : k < Len(sent)
    /\ \A k \in 1..Len(sent) :
          \/ k \in Range(OkIds)
          \/ k \in Range(overwritten)
          \/ completed /\ slot # << >> /\ slot[1].id = k
    /\ ~completed => slot = << >>
    /\ panicked => completed
    /\ \A i \in 1..Len(results) : results[i].tag = "Err" =>
          /\ EndsErr(prog)
          /\ results[i].val = Last(prog).arg
          /\ i = Len(results)

C8_Witness ==
    /\ overwritten = <<1>>
    /\ sent[1] # sent[2]
    /\ Len(sent) = 2
    /\ Returned = << <<"Ok", sent[2]>>, <<"None", 0>> >>

\* ------------------------------------------------------------- C9
\* C9: for a producer that awaits each send at once, no send ever finds the
\* Slot populated, and the await of a send has completed only if a pull has
\* taken that send's item out of the Slot and returned it.
C9_SlotEmptyAtSend ==
    AwaitsEachSend(prog) =>
        /\ overwritten = << >>
        /\ \A k \in 1..Len(sf_log) :
              "Ready" \in Range(sf_log[k]) => k \in Range(OkIds)
        /\ ~completed => FutPoll(ProducerState).overwritten = << >>

C9_Witness ==
    /\ AwaitsEachSend(prog)
    /\ Len(sent) = 2
    /\ sf_log[1] = <<"Pending", "Ready">>
    /\ sf_log[2] = <<"Pending", "Ready">>
    /\ slot = << >>

\* ------------------------------------------------------------- C10
\* C10: the first poll of a SenderFuture returns Pending and sets is_ready,
\* every later poll returns Ready; so an await the producer has passed has
\* suspended it exactly once, and each such suspension ended one pull.
C10_TwoPhaseHandshake ==
    /\ \A k \in 1..Len(sf_log) :
          /\ \A n \in 1..Len(sf_log[k]) :
                sf_log[k][n] = IF n = 1 THEN "Pending" ELSE "Ready"
          /\ is_ready[k] = (Len(sf_log[k]) >= 1)
    /\ \A j \in 1..(pc - 1) : prog[j].op = "await" =>
          /\ Len(sf_log[prog[j].arg]) >= 2
          /\ Cardinality({n \in 1..Len(sf_log[prog[j].arg]) :
                            sf_log[prog[j].arg][n] = "Pending"}) = 1
    /\ Cardinality({k \in 1..Len(sf_log) : Len(sf_log[k]) >= 1}) + waits
          = Len(SelectSeq(results, LAMBDA r : r.tag \in {"Ok", "Pending"}))

C10_Witness ==
    /\ Len(sf_log) = 2
    /\ sf_log[1] = <<"Pending", "Ready">>
    /\ sf_log[2] = <<"Pending">>
    /\ is_ready = <<TRUE, TRUE>>
    /\ prog[pc] = [op |-> "await", arg |-> 2]

\* ------------------------------------------------------------- C11
\* the pulls that took the Pending arm, i.e. that ran replace(None)
ReadPulls == SelectSeq(results, LAMBDA r : r.tag \in {"Ok", "Pending"})

\* number of sends that had been made when the Slot was last read
SentAtLastRead == IF ReadPulls = << >> THEN 0 ELSE Last(ReadPulls).nsent

\* C11: between pulls the Slot is populated exactly when send has been called
\* since the last pull that read and cleared it (and so it is empty before
\* any send); it never holds more than one item, and what it holds is the
\* item of the latest send.
C11_SlotInvariant ==
    /\ (slot # << >>) <=> (Len(sent) > SentAtLastRead)
    /\ Len(slot) <= 1
    /\ slot # << >> => slot[1] = [val |-> Last(sent), id |-> Len(sent)]

C11_Witness ==
    /\ slot # << >>
    /\ Len(sent) = 3
    /\ SentAtLastRead = 1
    /\ Len(ReadPulls) = 1
    /\ overwritten = <<2>>

\* ------------------------------------------------------------- C12
\* What one pull does, for the producers of the class `handshake`:
\*  - it polls the producer's future once and returns at most one result;
\*  - if it returns Ok(item k), the producer is left suspended at the await
\*    of the k-th SenderFuture, polled once and flipped to ready;
\*  - the pull after one that returned Ok(item k) polls that SenderFuture a
\*    second time (Ready) and the producer runs on: to the await of a later
\*    send, to a non-send wait, or to its end.
PullEffect(handshake) ==
    (pulls' = pulls + 1) =>
        /\ resumes' = resumes + 1
        /\ Len(results') <= Len(results) + 1
        /\ (handshake /\ Len(results') > Len(results)
               /\ Last(results').tag = "Ok") =>
            LET k == Last(results').id
            IN  /\ ~completed'
                /\ prog[pc'] = [op |-> "await", arg |-> k]
                /\ is_ready'[k]
                /\ sf_log'[k] = <<"Pending">>
        /\ (handshake /\ ~completed /\ results # << >>
               /\ Last(results).tag = "Ok") =>
            LET k == Last(results).id
            IN  /\ sf_log'[k] = <<"Pending", "Ready">>
                /\ pc' > pc
                /\ completed' \/ prog[pc'].op \in {"await", "wait"}
                /\ prog[pc'].op = "await" => prog[pc'].arg > k

\* C12 as stated, taken for the producers that obey the contract: every
\* pull has the effect above.
C12_EmitLeavesHandshake == [][PullEffect(ObeysContract(prog))]_vars

\* C12: every pull polls the producer's future exactly once and returns at
\* most one item; for a producer that awaits each send immediately, a pull
\* that returns an item leaves the producer suspended in that send's
\* handshake with the SenderFuture flipped, and the next pull completes the
\* handshake and lets the producer run to its next send, wait or end.
C12_EmitLeavesHandshakeIfAwaited == [][PullEffect(AwaitsEachSend(prog))]_vars

C12_Witness ==
    /\ AwaitsEachSend(prog)
    /\ ~completed
    /\ Len(results) = 2
    /\ results[1].tag = "Ok" /\ results[2].tag = "Ok"
    /\ prog[pc] = [op |-> "await", arg |-> 2]
    /\ sf_log = <<<<"Pending", "Ready">>, <<"Pending">>>>
    /\ resumes = 2

C14_DropIsFinal ==
    [][dropped =>
          /\ dropped'
          /\ UNCHANGED <<pc, completed, slot, is_ready, io_ready, sent,
                         overwritten, sf_log, results, pulls, resumes, waits,
                         panicked>>]_vars

\* dropped while the handshake of the last send is in its first phase
C14_Witness ==
    /\ dropped
    /\ ~completed
    /\ results # << >>
    /\ Last(results).tag = "Ok"
    /\ prog[pc] = [op |-> "await", arg |-> Last(results).id]
    /\ sf_log[Last(results).id] = <<"Pending">>
    /\ pc < Len(prog) - 1

\* ------------------------------------------------------------- C15
\* C15: for a producer that awaits each send immediately, a pull returns
\* Pending only when the producer is suspended on a non-send wait that
\* returned Pending, and a pull that leaves the producer at the await of a
\* SenderFuture returns that send's item.  For any producer, a pull that
\* leaves the producer at the await of a SenderFuture without a send having
\* been made in that resume returns Pending although no wait returned
\* Pending: the SenderFuture's first poll did, and the Slot was empty.
C15_NoPendingFromHandshake ==
    [][(pulls' = pulls + 1 /\ ~completed) =>
          /\ (AwaitsEachSend(prog) /\ Last(results').tag = "Pending") =>
                /\ prog[pc'].op = "wait"
                /\ waits' = waits + 1
          /\ (AwaitsEachSend(prog) /\ ~completed'
                 /\ prog[pc'].op = "await") =>
                /\ Last(results').tag = "Ok"
                /\ Last(results').id = prog[pc'].arg
                /\ Last(results').val = sent'[prog[pc'].arg]
                /\ sf_log'[prog[pc'].arg] = <<"Pending">>
          /\ (~completed' /\ prog[pc'].op = "await" /\ sent' = sent) =>
                /\ Last(results').tag = "Pending"
                /\ waits' = waits
                /\ sf_log'[prog[pc'].arg] = <<"Pending">>]_vars

\* a Pending pull on a wait, then a pull that stops in a handshake
C15_Witness ==
    /\ AwaitsEachSend(prog)
    /\ Len(results) = 2
    /\ results[1].tag = "Pending"
    /\ results[2].tag = "Ok"
    /\ waits = 1
    /\ prog[pc] = [op |-> "await", arg |-> 1]

\* the converse case: send, wait, and only then the await of the send
C15_ConverseReached ==
    /\ ~AwaitsEachSend(prog)
    /\ ObeysContract(prog)
    /\ Len(results) = 2
    /\ results[1].tag = "Ok"
    /\ results[2].tag = "Pending"
    /\ waits = 1
    /\ prog[pc] = [op |-> "await", arg |-> 1]
    /\ sf_log[1] = <<"Pending">>
    /\ slot = << >>

\* ------------------------------------------------------------- C16
\* C16: the pull in which the producer completes returns None or the
\* failure item, never an item, also when the Slot is populated at that
\* moment; every pull before it found the producer suspended, and only
\* those return items.  An item left in the Slot by a producer that sent
\* and returned without yielding stays there: no pull has returned it, the
\* completing pull and the pulls made after it included.
C16_UnyieldedItemIsLost ==
    /\ \A i \in 1..Len(results) :
          IF completed /\ i = Len(results)
          THEN Tagged(results[i]) = IF EndsOk(prog) THEN <<"None", 0>>
                                    ELSE <<"Err", Last(prog).arg>>
          ELSE results[i].tag \in {"Ok", "Pending"}
    /\ completed => results # << >>
    /\ (completed /\ slot # << >>) =>
          /\ slot[1].id \notin Range(OkIds)
          /\ slot[1].id = Len(sent)
          /\ Len(OkResults) < Len(sent)

C16_Witness ==
    /\ completed
    /\ Len(sent) = 1
    /\ slot = <<[val |-> sent[1], id |-> 1]>>
    /\ Len(results) = 1
    /\ results[1].tag = "None"
    /\ pulls = 3

\* ------------------------------------------------------------- C17
\* C17: a producer that sends i1..iN, awaiting each send, never suspends on
\* anything else and returns Ok(()) is drained by exactly N + 1 pulls: the
\* k-th returns Ok(ik), the (N+1)-th returns None and is the one in which
\* the producer completes, none returns Pending, and each of them polls the
\* producer's future once, N + 1 polls in all.
C17_DrainTakesNPlusOnePulls ==
    (AwaitsEachSend(prog) /\ NoWaits(prog) /\ EndsOk(prog)) =>
        LET N == Len(SentItems(prog))
        IN  /\ Len(results) <= N + 1
            /\ \A k \in 1..Len(results) :
                  Tagged(results[k]) = IF k <= N THEN <<"Ok", SentItems(prog)[k]>>
                                       ELSE <<"None", 0>>
            /\ completed <=> Len(results) = N + 1
            /\ ~panicked => (pulls = Len(results) /\ resumes = Len(results))
            /\ waits = 0

C17_Witness ==
    /\ AwaitsEachSend(prog) /\ NoWaits(prog) /\ EndsOk(prog)
    /\ Len(SentItems(prog)) = 2
    /\ completed
    /\ ~panicked
    /\ pulls = 3
    /\ resumes = 3
    /\ Len(results) = 3

\* ------------------------------------------------------------- C18
\* the producer has completed, every item it sent has been returned, in
\* order, and the last pull that returned reported the producer's outcome
Drained ==
    /\ completed
    /\ sent = SentItems(prog)
    /\ OkVals = sent
    /\ Tagged(Last(results)) = IF EndsOk(prog) THEN <<"None", 0>>
                               ELSE <<"Err", Last(prog).arg>>

\* C18: with a consumer that keeps pulling and waits that resolve in the
\* end, a producer that obeys the contract is always drained eventually:
\* every item passed to send is returned by some pull and a pull returns
\* None (after Ok(())) or the failure item (after Err(e)); the pulls do not
\* return Pending forever.
C18_EventuallyDrained == ObeysContract(prog) ~> Drained

C18_Witness ==
    /\ ObeysContract(prog)
    /\ ~AwaitsEachSend(prog)
    /\ Drained
    /\ EndsErr(prog)
    /\ Len(sent) = 1
    /\ \E i \in 1..Len(results) : results[i].tag = "Pending"
    /\ waits = MaxIdle

====
